---- MODULE Spec2Model ----
(***************************************************************************)
(* Control logic of Pix2Pix_Project/trainer.py: the train / test / export  *)
(* driver.  The model object, the data loaders, the tensorboard writer and *)
(* the util module are external; they are represented by the sequence of   *)
(* calls they receive (calls) and by the files those calls write (files).  *)
(* Every delegated call may raise; the script has no try/except, so a      *)
(* raised exception ends the run (pc = "crashed").                         *)
(***************************************************************************)
EXTENDS Integers, Sequences, FiniteSets

\* ---- bounds of the model ------------------------------------------------
MaxEpochs == 2
MaxBatches == 2
MaxTestBatches == 2
MaxTestSample == 1
MaxBatchSize == 1
MaxLogFreq == 1
MaxCkptFreq == 2

VARIABLES
    TRAIN, TEST, TEST_SAMPLE, WRITE_LOGS, SAVE_CKPTS, SAVE_IMG_CKPT, EXPORT_MODEL,
    BATCH_SIZE, EPOCHS, LOG_FREQ, CKPT_FREQ,
    pc,           \* line of trainer.py the script is at, "done" or "crashed"
    trainSet,     \* batches the training loader yields, in order
    testSet,      \* batches the test loader yields, in order
    epoch,        \* the global `epoch`; Unbound until the for loop binds it
    i,            \* index enumerate() yields next in the running batch loop
    total_iters,
    epoch_iter,
    calls,        \* calls received by the external objects, in order
    files,        \* files written so far
    raised        \* the call whose exception ended the run, or "none"

config == <<TRAIN, TEST, TEST_SAMPLE, WRITE_LOGS, SAVE_CKPTS, SAVE_IMG_CKPT,
            EXPORT_MODEL, BATCH_SIZE, EPOCHS, LOG_FREQ, CKPT_FREQ>>

vars == <<config, pc, trainSet, testSet, epoch, i, total_iters, epoch_iter,
          calls, files, raised>>

Unbound == 0 - 1

\* The loss names read at line 102 and iterated at lines 106-108.
LOSSES == <<"G_GAN", "G_L1", "D_real", "D_fake">>

\* One call of an external object: op(arg) made at `line` while the global
\* epoch had value `epoch`; out names the kind of file the call writes at
\* <<out, arg>> ("" when it writes none).  arg is the checkpoint label, the
\* batch, the step or the file index; for ImageFolderLoader it is the flip
\* argument (0 for flip=False, Unbound when not passed), for DataLoader the
\* number of batches, for Pix2PixModel is_train (1 or 0).
Ev(op, arg, e, line, out) ==
    [op |-> op, arg |-> arg, epoch |-> e, line |-> line, out |-> out]

Written(evs) ==
    {<<evs[k].out, evs[k].arg>> : k \in {j \in 1..Len(evs) : evs[j].out # ""}}

\* torch.utils.data.DataLoader over n batches: with shuffle=False the
\* batches come in data-set order 0, 1, ..., n-1.
Orders(n) ==
    {s \in [1..n -> 0..(n - 1)] : \A a, b \in 1..n : a # b => s[a] # s[b]}

DataLoader(n, shuffle) ==
    IF shuffle THEN Orders(n) ELSE {[k \in 1..n |-> k - 1]}

\* Run with every call wrapped in try/except: pass.
Run_Swallowed(steps, next) ==
    \E k \in 1..(Len(steps) + 1) :
        /\ calls' = calls \o SubSeq(steps, 1, k - 1)
        /\ files' = files \cup Written(SubSeq(steps, 1, k - 1))
        /\ raised' = IF k <= Len(steps) THEN steps[k].op ELSE raised
        /\ pc' = next

\* A straight-line block of delegated calls.  No call is wrapped in
\* try/except: either all of them return and the script goes on at `next`,
\* or the k-th raises, the calls before it have taken effect, and the
\* exception propagates out of the script.
Run(steps, next) ==
    \E k \in 1..(Len(steps) + 1) :
        /\ calls' = calls \o SubSeq(steps, 1, k - 1)
        /\ files' = files \cup Written(SubSeq(steps, 1, k - 1))
        /\ IF k <= Len(steps)
              THEN /\ raised' = steps[k].op
                   /\ pc' = "crashed"
              ELSE /\ raised' = raised
                   /\ pc' = next

Init ==
    /\ TRAIN \in BOOLEAN
    /\ TEST \in BOOLEAN
    /\ EXPORT_MODEL \in BOOLEAN
    /\ WRITE_LOGS \in BOOLEAN
    /\ SAVE_CKPTS \in BOOLEAN
    /\ SAVE_IMG_CKPT \in BOOLEAN
    /\ TEST_SAMPLE \in 0..MaxTestSample
    /\ BATCH_SIZE \in 1..MaxBatchSize
    /\ EPOCHS \in 0..MaxEpochs
    /\ LOG_FREQ \in 1..MaxLogFreq
    /\ CKPT_FREQ \in 1..MaxCkptFreq
    /\ pc = "L66"
    /\ trainSet = <<>>
    /\ testSet = <<>>
    /\ epoch = Unbound
    /\ i = 0
    /\ total_iters = 0
    /\ epoch_iter = 0
    /\ calls = <<>>
    /\ files = {}
    /\ raised = "none"

\* ---- training mode (lines 66-143) ---------------------------------------

\* line 66, TRAIN is False
SkipTrain ==
    /\ pc = "L66"
    /\ ~TRAIN
    /\ pc' = "L145"
    /\ UNCHANGED <<config, trainSet, testSet, epoch, i, total_iters, epoch_iter,
                   calls, files, raised>>

\* lines 66-75: data set, loader, model, total_iters = 0
TrainSetup ==
    /\ pc = "L66"
    /\ TRAIN
    /\ \E n \in 0..MaxBatches :
         \E order \in DataLoader(n, FALSE) :
            /\ Run(<<Ev("ImageFolderLoader", Unbound, epoch, 68, ""),
                     Ev("DataLoader", n, epoch, 69, ""),
                     Ev("Pix2PixModel", 1, epoch, 72, ""),
                     Ev("setup", 0, epoch, 74, "")>>, "L78")
            /\ trainSet' = IF pc' = "crashed" THEN trainSet ELSE order
    /\ total_iters' = 0
    /\ UNCHANGED <<config, testSet, epoch, i, epoch_iter>>

\* range(EPOCHS + 1)
HasNextEpoch_OffByOne == epoch + 1 <= EPOCHS

\* line 78: range(EPOCHS) has a value after `epoch` (0 when unbound)
HasNextEpoch == epoch + 1 < EPOCHS

\* the learning rate updated in every epoch, the first included
LrCalls_EveryEpoch(e) == <<Ev("update_learning_rate", 0, e, 84, "")>>

\* lines 83-84: the learning rate is updated except in epoch 0
LrCalls(e) ==
    IF e # 0 THEN <<Ev("update_learning_rate", 0, e, 84, "")>> ELSE <<>>

\* lines 78-84: range(EPOCHS) yields the next epoch
EpochBegin ==
    /\ pc = "L78"
    /\ HasNextEpoch
    /\ epoch' = epoch + 1
    /\ epoch_iter' = 0
    /\ i' = 0
    /\ Run(LrCalls(epoch'), "L87")
    /\ UNCHANGED <<config, trainSet, testSet, total_iters>>

\* line 78: range(EPOCHS) is exhausted; `epoch` keeps its last value
EpochLoopEnd ==
    /\ pc = "L78"
    /\ ~HasNextEpoch
    /\ pc' = "L131"
    /\ UNCHANGED <<config, trainSet, testSet, epoch, i, total_iters, epoch_iter,
                   calls, files, raised>>

\* logging that does not look at WRITE_LOGS
LogCalls_Ungated(iters, e) ==
    IF iters % LOG_FREQ = 0
       THEN <<Ev("get_current_losses", 0, e, 106, "")>>
            \o [k \in 1..Len(LOSSES) |-> Ev("add_scalar", iters, e, 108, "log")]
            \o <<Ev("writer.close", 0, e, 109, "")>>
       ELSE <<>>

\* lines 104-109: tensorboard logging of one batch
LogCalls(iters, e) ==
    IF WRITE_LOGS /\ iters % LOG_FREQ = 0
       THEN <<Ev("get_current_losses", 0, e, 106, "")>>
            \o [k \in 1..Len(LOSSES) |-> Ev("add_scalar", iters, e, 108, "log")]
            \o <<Ev("writer.close", 0, e, 109, "")>>
       ELSE <<>>

\* lines 87-111: one batch of the training set.  The loader fetches the
\* batch, then the counters are advanced, then the model is fed.  Lines
\* 99-102 only read the losses and print them.
TrainBatch ==
    /\ pc = "L87"
    /\ i < Len(trainSet)
    /\ Run(<<Ev("__next__", trainSet[i + 1], epoch, 87, ""),
             Ev("set_input", trainSet[i + 1], epoch, 95, ""),
             Ev("optimize_parameters", trainSet[i + 1], epoch, 96, "")>>
           \o LogCalls(total_iters + BATCH_SIZE, epoch), "L87")
    /\ total_iters' = IF raised' = "__next__" THEN total_iters
                                              ELSE total_iters + BATCH_SIZE
    /\ epoch_iter' = IF raised' = "__next__" THEN epoch_iter
                                             ELSE epoch_iter + BATCH_SIZE
    /\ i' = IF pc' = "crashed" THEN i ELSE i + 1
    /\ UNCHANGED <<config, trainSet, testSet, epoch>>

\* a checkpoint after every CKPT_FREQ-th epoch, counted from 1
CkptCalls_CountFromOne(e) ==
    IF SAVE_CKPTS /\ (e + 1) % CKPT_FREQ = 0
       THEN <<Ev("save_network", e, e, 116, "ckpt")>>
            \o (IF SAVE_IMG_CKPT
                   THEN <<Ev("save_visuals", e, e, 123, "epoch_jpg")>>
                   ELSE <<>>)
       ELSE <<>>

\* lines 113-123: checkpoint and image at the end of an epoch
CkptCalls(e) ==
    IF SAVE_CKPTS /\ e % CKPT_FREQ = 0
       THEN <<Ev("save_network", e, e, 116, "ckpt")>>
            \o (IF SAVE_IMG_CKPT
                   THEN <<Ev("save_visuals", e, e, 123, "epoch_jpg")>>
                   ELSE <<>>)
       ELSE <<>>

\* lines 87, 113-127: the training set is exhausted, the epoch ends
EpochEnd ==
    /\ pc = "L87"
    /\ i = Len(trainSet)
    /\ Run(CkptCalls(epoch) \o <<Ev("print_end_of_epoch", epoch, epoch, 126, "")>>,
           "L78")
    /\ UNCHANGED <<config, trainSet, testSet, epoch, i, total_iters, epoch_iter>>

\* the final save labelled with the number of epochs
FinalCalls_LabelEpochs(e) ==
    IF SAVE_CKPTS
       THEN <<Ev("save_network", EPOCHS, e, 133, "ckpt")>>
            \o (IF SAVE_IMG_CKPT
                   THEN <<Ev("save_visuals", EPOCHS, e, 139, "epoch_jpg")>>
                   ELSE <<>>)
       ELSE <<>>

\* lines 130-139: final save and image under the label `epoch`
FinalCalls(e) ==
    IF SAVE_CKPTS
       THEN <<Ev("save_network", e, e, 133, "ckpt")>>
            \o (IF SAVE_IMG_CKPT
                   THEN <<Ev("save_visuals", e, e, 139, "epoch_jpg")>>
                   ELSE <<>>)
       ELSE <<>>

\* lines 130-143: after the epoch loop.  Line 133 reads the global `epoch`,
\* which range(0) never bound: a NameError before save_network is called.
TrainFinal ==
    /\ pc = "L131"
    /\ IF SAVE_CKPTS /\ epoch = Unbound
          THEN /\ raised' = "NameError"
               /\ pc' = "crashed"
               /\ UNCHANGED <<calls, files>>
          ELSE Run(FinalCalls(epoch) \o <<Ev("plot_visuals", 0, epoch, 143, "")>>,
                   "L145")
    /\ UNCHANGED <<config, trainSet, testSet, epoch, i, total_iters, epoch_iter>>

\* ---- testing mode (lines 145-165) ---------------------------------------

\* line 145, TEST is False
SkipTest ==
    /\ pc = "L145"
    /\ ~TEST
    /\ pc' = "L167"
    /\ UNCHANGED <<config, trainSet, testSet, epoch, i, total_iters, epoch_iter,
                   calls, files, raised>>

\* lines 145-154: test data set (flip=False, shuffle=False), model, checkpoint
TestSetup ==
    /\ pc = "L145"
    /\ TEST
    /\ \E n \in 0..MaxTestBatches :
         \E order \in DataLoader(n, FALSE) :
            /\ Run(<<Ev("ImageFolderLoader", 0, epoch, 147, ""),
                     Ev("DataLoader", n, epoch, 148, ""),
                     Ev("Pix2PixModel", 0, epoch, 151, ""),
                     Ev("setup", 0, epoch, 152, ""),
                     Ev("eval", 0, epoch, 153, ""),
                     Ev("load_networks", 0, epoch, 154, "")>>, "L157")
            /\ testSet' = IF pc' = "crashed" THEN testSet ELSE order
    /\ i' = IF pc' = "crashed" THEN i ELSE 0
    /\ UNCHANGED <<config, trainSet, epoch, total_iters, epoch_iter>>

\* i <= TEST_SAMPLE
InSample_OffByOne(k) == k <= TEST_SAMPLE

\* line 158: the sample index is within the test sample
InSample(k) == k < TEST_SAMPLE

\* lines 157-163: one test sample
TestSample ==
    /\ pc = "L157"
    /\ i < Len(testSet)
    /\ InSample(i)
    /\ Run(<<Ev("__next__", testSet[i + 1], epoch, 157, ""),
             Ev("set_input", testSet[i + 1], epoch, 159, ""),
             Ev("test", testSet[i + 1], epoch, 160, ""),
             Ev("save_visuals", i, epoch, 163, "test_jpg")>>, "L157")
    /\ i' = IF pc' = "crashed" THEN i ELSE i + 1
    /\ UNCHANGED <<config, trainSet, testSet, epoch, total_iters, epoch_iter>>

\* lines 157, 164-165: the next batch is fetched, the sample count is
\* reached, break
TestBreak ==
    /\ pc = "L157"
    /\ i < Len(testSet)
    /\ ~InSample(i)
    /\ Run(<<Ev("__next__", testSet[i + 1], epoch, 157, "")>>, "L167")
    /\ UNCHANGED <<config, trainSet, testSet, epoch, i, total_iters, epoch_iter>>

\* line 157: the test set is exhausted
TestLoopEnd ==
    /\ pc = "L157"
    /\ i = Len(testSet)
    /\ pc' = "L167"
    /\ UNCHANGED <<config, trainSet, testSet, epoch, i, total_iters, epoch_iter,
                   calls, files, raised>>

\* ---- export mode (lines 167-183) ----------------------------------------

\* line 167, EXPORT_MODEL is False
SkipExport ==
    /\ pc = "L167"
    /\ ~EXPORT_MODEL
    /\ pc' = "done"
    /\ UNCHANGED <<config, trainSet, testSet, epoch, i, total_iters, epoch_iter,
                   calls, files, raised>>

\* lines 171-183: model, checkpoint, output file, ONNX export
ExportCalls(isdir) ==
    <<Ev("Pix2PixModel", 0, epoch, 172, ""),
      Ev("setup", 0, epoch, 173, ""),
      Ev("eval", 0, epoch, 174, ""),
      Ev("load_networks", 0, epoch, 175, "")>>
    \o (IF isdir THEN <<>> ELSE <<Ev("makedirs", 0, epoch, 178, "")>>)
    \o <<Ev("open", 0, epoch, 181, "onnx"),
         Ev("onnx.export", 0, epoch, 183, "onnx")>>

\* export mode entered on the TEST flag
Export_OnTestFlag ==
    /\ pc = "L167"
    /\ TEST
    /\ \E isdir \in BOOLEAN : Run(ExportCalls(isdir), "done")
    /\ UNCHANGED <<config, trainSet, testSet, epoch, i, total_iters, epoch_iter>>

\* lines 167-183: export mode
Export ==
    /\ pc = "L167"
    /\ EXPORT_MODEL
    /\ \E isdir \in BOOLEAN : Run(ExportCalls(isdir), "done")
    /\ UNCHANGED <<config, trainSet, testSet, epoch, i, total_iters, epoch_iter>>

Next ==
    \/ SkipTrain
    \/ TrainSetup
    \/ EpochBegin
    \/ EpochLoopEnd
    \/ TrainBatch
    \/ EpochEnd
    \/ TrainFinal
    \/ SkipTest
    \/ TestSetup
    \/ TestSample
    \/ TestBreak
    \/ TestLoopEnd
    \/ SkipExport
    \/ Export

Spec == Init /\ [][Next]_vars

FairSpec == Spec /\ WF_vars(Next)

\* ---- helpers over the call log -------------------------------------------

Idx(op, line) == {k \in 1..Len(calls) : calls[k].op = op /\ calls[k].line = line}

IdxOp(op) == {k \in 1..Len(calls) : calls[k].op = op}

IsOptimize(ev) == ev.op = "optimize_parameters"

IsTrainInput(ev) == ev.op = "set_input" /\ ev.line = 95

IsTestInput(ev) == ev.op = "set_input" /\ ev.line = 159

IsTest(ev) == ev.op = "test"

IsEpochEnd(ev) == ev.op = "print_end_of_epoch"

IsEpochImage(ev) == ev.op = "save_visuals" /\ ev.out = "epoch_jpg"

Args(evs) == [k \in 1..Len(evs) |-> evs[k].arg]

EpochArg(evs) == [k \in 1..Len(evs) |-> <<evs[k].epoch, evs[k].arg>>]

Min(a, b) == IF a < b THEN a ELSE b

\* 1 for train (lines 66-143), 2 for test (145-165), 3 for export (167-183)
Mode(ev) == IF ev.line <= 143 THEN 1 ELSE IF ev.line <= 165 THEN 2 ELSE 3

\* the training loop (lines 78-127) has just been left
LoopEnded == TRAIN /\ pc = "L131"

\* training mode (lines 66-143) has just been left after running
TrainingComplete == TRAIN /\ pc = "L145"

\* the test loop (lines 157-165) has just been left after running
TestPassed == TEST /\ pc = "L167"

\* ---- C1 ------------------------------------------------------------------

\* what a full training run feeds to the model: epoch e, batch b, for
\* e = 0..EPOCHS-1 and b = 0..n-1, in that order
AllBatches(n) ==
    [k \in 1..(EPOCHS * n) |-> <<(k - 1) \div n, (k - 1) % n>>]

C1_Result ==
    LoopEnded =>
        /\ EpochArg(SelectSeq(calls, IsOptimize)) = AllBatches(Len(trainSet))
        /\ EpochArg(SelectSeq(calls, IsTrainInput)) = AllBatches(Len(trainSet))
        /\ \A k \in IdxOp("optimize_parameters") :
               k > 1 /\ IsTrainInput(calls[k - 1]) /\ calls[k - 1].arg = calls[k].arg
        /\ Args(SelectSeq(calls, IsEpochEnd)) = [k \in 1..EPOCHS |-> k - 1]
        /\ total_iters = EPOCHS * Len(trainSet) * BATCH_SIZE

\* C1: with TRAIN enabled the training loop terminates (it is left, or an
\* exception ends the script), and when it is left it has run the epochs
\* 0..EPOCHS-1 in order, each once, has fed every batch of the training set
\* to set_input and optimize_parameters exactly once per epoch, and
\* total_iters = EPOCHS * (number of batches) * BATCH_SIZE.
C1_TrainingRunsAllEpochs ==
    /\ []C1_Result
    /\ <>(TRAIN => (pc = "L131" \/ pc = "crashed"))

C1_Witness ==
    /\ LoopEnded
    /\ EPOCHS = 2 /\ Len(trainSet) = 2
    /\ total_iters = 4 * BATCH_SIZE
    /\ Cardinality(IdxOp("optimize_parameters")) = 4

\* ---- C2 ------------------------------------------------------------------

\* C2: with SAVE_CKPTS, save_network(e) is called in the loop at the end of
\* epoch e, after all its batches, iff e % CKPT_FREQ = 0; so every CKPT_FREQ
\* consecutive completed epochs contain a written checkpoint, and epoch 0's
\* checkpoint is written at the end of the first epoch.
C2_CheckpointCadence ==
    (SAVE_CKPTS /\ pc \in {"L78", "L87", "crashed"}) =>
        LET saves == Idx("save_network", 116)
            opts == IdxOp("optimize_parameters")
            ends == IdxOp("print_end_of_epoch")
            completed == {calls[k].arg : k \in ends}
        IN  /\ \A k \in saves :
                  /\ calls[k].arg = calls[k].epoch
                  /\ calls[k].arg % CKPT_FREQ = 0
                  /\ <<"ckpt", calls[k].arg>> \in files
                  /\ \A j \in saves : calls[j].arg = calls[k].arg => j = k
                  /\ \A j \in opts : (j < k) <=> (calls[j].epoch <= calls[k].arg)
            /\ \A k \in ends :
                  (\E j \in saves : j < k /\ calls[j].arg = calls[k].arg)
                      <=> (calls[k].arg % CKPT_FREQ = 0)
            /\ \A e \in 0..(EPOCHS - 1) :
                  ((e..(e + CKPT_FREQ - 1)) \subseteq completed) =>
                      \E x \in e..(e + CKPT_FREQ - 1) : <<"ckpt", x>> \in files
            /\ (0 \in completed) => <<"ckpt", 0>> \in files

C2_Witness ==
    /\ SAVE_CKPTS /\ CKPT_FREQ = 2
    /\ pc = "L78" /\ epoch = 1
    /\ Len(trainSet) = 2
    /\ Idx("save_network", 116) # {}
    /\ <<"ckpt", 0>> \in files /\ <<"ckpt", 1>> \notin files

\* ---- C3 ------------------------------------------------------------------

\* C3: testing and export mode load the latest checkpoint: after a training
\* pass that saved checkpoints, the label passed to load_networks is the
\* label of the last save_network call of training.
C3_LoadsLatestCheckpoint ==
    LET loads == IdxOp("load_networks")
        saves == IdxOp("save_network")
    IN  \A k \in loads :
            \A j \in saves :
                (\A m \in saves : m <= j) => calls[k].arg = calls[j].arg

\* ---- C4 ------------------------------------------------------------------

\* the flag that enables the mode of a call site
ModeFlag(m) == IF m = 1 THEN TRAIN ELSE IF m = 2 THEN TEST ELSE EXPORT_MODEL

\* C4: the modes run in the order train, test, export: the call log only
\* grows, every new call belongs to a mode at least as late as every call
\* before it, a test or export call is made only after the final plot of
\* training has returned, an export call only after the test loop has been
\* left, and a mode whose flag is False makes no call.
C4_ModesSequential ==
    [][LET n == Len(calls)
           last == IF n = 0 THEN 1 ELSE Mode(calls[n])
           new == (n + 1)..Len(calls')
       IN  /\ Len(calls') >= n
           /\ SubSeq(calls', 1, n) = calls
           /\ \A k \in new :
                 /\ Mode(calls'[k]) >= last
                 /\ k > n + 1 => Mode(calls'[k]) >= Mode(calls'[k - 1])
                 /\ ModeFlag(Mode(calls'[k]))
                 /\ (Mode(calls'[k]) > 1 /\ TRAIN) => IdxOp("plot_visuals") # {}
                 /\ (Mode(calls'[k]) = 3 /\ TEST) =>
                        /\ Idx("load_networks", 154) # {}
                        /\ Cardinality(Idx("save_visuals", 163))
                               = Min(TEST_SAMPLE, Len(testSet))
      ]_vars

C4_Witness ==
    /\ pc = "done"
    /\ TRAIN /\ ~TEST /\ EXPORT_MODEL
    /\ Idx("onnx.export", 183) # {}
    /\ IdxOp("optimize_parameters") # {}

C4_WitnessAllModes ==
    /\ pc = "done"
    /\ TRAIN /\ TEST /\ EXPORT_MODEL
    /\ Idx("onnx.export", 183) # {}
    /\ Idx("save_visuals", 163) # {}
    /\ IdxOp("optimize_parameters") # {}

\* ---- C5 ------------------------------------------------------------------

C5_Result ==
    /\ pc \in {"L157", "L167", "crashed"} =>
          \A k \in 1..Len(calls) :
             /\ (IsTestInput(calls[k]) \/ IsTest(calls[k])) => calls[k].arg < TEST_SAMPLE
             /\ (calls[k].op = "ImageFolderLoader" /\ calls[k].line = 147)
                    => calls[k].arg = 0
    /\ TestPassed =>
          LET m == Min(TEST_SAMPLE, Len(testSet))
          IN  /\ Args(SelectSeq(calls, IsTestInput)) = [k \in 1..m |-> k - 1]
              /\ Args(SelectSeq(calls, IsTest)) = [k \in 1..m |-> k - 1]
              /\ {f \in files : f[1] = "test_jpg"}
                     = {<<"test_jpg", x>> : x \in 0..(m - 1)}

\* C5: the test loop terminates (it is left, or an exception ends the
\* script); a test pass that is left has processed exactly
\* min(TEST_SAMPLE, N) samples, the first ones in data-set order, each
\* through set_input and test and saved as test_<i>.jpg; the data set is
\* loaded with flip=False, and no sample with index >= TEST_SAMPLE is ever
\* fed to the model.
C5_TestSampleCount ==
    /\ []C5_Result
    /\ <>(TEST => (pc = "L167" \/ pc = "crashed"))

C5_Witness ==
    /\ TestPassed
    /\ TEST_SAMPLE = 1 /\ Len(testSet) = 2
    /\ <<"test_jpg", 0>> \in files
    /\ Cardinality(Idx("__next__", 157)) = 2

C5_WitnessShortSet ==
    /\ TestPassed
    /\ TEST_SAMPLE = 1 /\ Len(testSet) = 0
    /\ <<"test_jpg", 0>> \notin files

\* ---- C6 ------------------------------------------------------------------

\* C6: an exception raised by a delegated call is not caught: the step in
\* which it is raised ends the script, and from then on no call is made and
\* no file is written or changed.
C6_FailurePropagates ==
    [][(raised' # "none") =>
          /\ pc' = "crashed"
          /\ (raised # "none") => (calls' = calls /\ files' = files /\ raised' = raised)
      ]_vars

C6_Witness ==
    /\ pc = "crashed"
    /\ raised = "load_networks"
    /\ TRAIN /\ TEST /\ EXPORT_MODEL
    /\ <<"ckpt", 0>> \in files
    /\ \A k \in 1..Len(calls) : Mode(calls[k]) <= 2

\* ---- C7 ------------------------------------------------------------------

\* C7: no save_network call without SAVE_CKPTS, no add_scalar call without
\* WRITE_LOGS, and an epoch_<e>.jpg image is saved exactly after a
\* save_network(e) call when SAVE_IMG_CKPT is set: one image per checkpoint
\* save, none when SAVE_IMG_CKPT or SAVE_CKPTS is False.
C7_OutputsGated ==
    LET n == Len(calls)
    IN  /\ \A k \in 1..n :
              /\ calls[k].op = "save_network" => SAVE_CKPTS
              /\ calls[k].op = "add_scalar" => WRITE_LOGS
              /\ IsEpochImage(calls[k]) =>
                    /\ SAVE_IMG_CKPT /\ SAVE_CKPTS
                    /\ k > 1
                    /\ calls[k - 1].op = "save_network"
                    /\ calls[k - 1].arg = calls[k].arg
              /\ (calls[k].op = "save_network" /\ SAVE_IMG_CKPT) =>
                    \/ k = n /\ raised = "save_visuals"
                    \/ k < n /\ IsEpochImage(calls[k + 1])
                             /\ calls[k + 1].arg = calls[k].arg
        /\ ~WRITE_LOGS => \A f \in files : f[1] # "log"
        /\ ~SAVE_CKPTS => \A f \in files : f[1] # "ckpt"
        /\ (~SAVE_IMG_CKPT \/ ~SAVE_CKPTS) => \A f \in files : f[1] # "epoch_jpg"

C7_Witness ==
    /\ TrainingComplete
    /\ ~WRITE_LOGS /\ SAVE_CKPTS /\ SAVE_IMG_CKPT
    /\ total_iters >= LOG_FREQ
    /\ Cardinality({k \in 1..Len(calls) : IsEpochImage(calls[k])}) = 3

C7_WitnessNoImage ==
    /\ TrainingComplete
    /\ WRITE_LOGS /\ SAVE_CKPTS /\ ~SAVE_IMG_CKPT
    /\ IdxOp("add_scalar") # {}
    /\ Cardinality(IdxOp("save_network")) = 3

\* ---- C8 ------------------------------------------------------------------

\* C8: with SAVE_CKPTS and EPOCHS >= 1, a completed training run ends with a
\* save_network call made after the loop under the label EPOCHS-1; it is the
\* last save_network call, the second under that label when
\* (EPOCHS-1) % CKPT_FREQ = 0 and the only one otherwise.
C8_FinalSave ==
    (TrainingComplete /\ SAVE_CKPTS /\ EPOCHS >= 1) =>
        LET saves == IdxOp("save_network")
            final == Idx("save_network", 133)
        IN  /\ Cardinality(final) = 1
            /\ \A k \in final :
                  /\ calls[k].arg = EPOCHS - 1
                  /\ \A j \in saves : j <= k
            /\ Cardinality({k \in saves : calls[k].arg = EPOCHS - 1})
                  = IF (EPOCHS - 1) % CKPT_FREQ = 0 THEN 2 ELSE 1
            /\ <<"ckpt", EPOCHS - 1>> \in files

C8_Witness ==
    /\ TrainingComplete /\ SAVE_CKPTS
    /\ EPOCHS = 1 /\ CKPT_FREQ = 2
    /\ Cardinality({k \in IdxOp("save_network") : calls[k].arg = 0}) = 2

C8_WitnessOnlySave ==
    /\ TrainingComplete /\ SAVE_CKPTS
    /\ EPOCHS = 2 /\ CKPT_FREQ = 2
    /\ Cardinality({k \in IdxOp("save_network") : calls[k].arg = 1}) = 1

\* ---- C9 ------------------------------------------------------------------

\* update_learning_rate is called once at the start of every epoch but
\* epoch 0, before the epoch's batches, and every batch of epoch e is
\* optimized after exactly e updates
C9_PerEpoch ==
    LET n == Len(calls)
        lrs == IdxOp("update_learning_rate")
    IN  /\ \A k \in lrs :
              /\ calls[k].epoch # 0
              /\ \A j \in 1..n : (calls[j].epoch = calls[k].epoch /\ j # k) => k < j
        /\ \A k \in 1..n :
              /\ (Mode(calls[k]) = 1 /\ calls[k].epoch >= 1 /\ calls[k].line > 84) =>
                     \E j \in lrs : calls[j].epoch = calls[k].epoch
              /\ IsOptimize(calls[k]) =>
                     Cardinality({j \in lrs : j < k}) = calls[k].epoch

\* C9 as stated: ... and a full training run makes exactly EPOCHS-1 calls.
C9_LrUpdatesEpochsMinusOne ==
    /\ pc \in {"L78", "L87", "crashed"} => C9_PerEpoch
    /\ LoopEnded => Cardinality(IdxOp("update_learning_rate")) = EPOCHS - 1

\* C9, amended: update_learning_rate is called once at the start of every
\* epoch except epoch 0, before any batch of that epoch and never between
\* two of its batches; the batches of epoch e are optimized after exactly e
\* updates; a full training run makes exactly EPOCHS-1 calls when
\* EPOCHS >= 1, and none when EPOCHS = 0.
C9_LrUpdatesPerEpoch ==
    /\ pc \in {"L78", "L87", "crashed"} => C9_PerEpoch
    /\ LoopEnded =>
           Cardinality(IdxOp("update_learning_rate"))
               = IF EPOCHS >= 1 THEN EPOCHS - 1 ELSE 0

C9_Witness ==
    /\ LoopEnded
    /\ EPOCHS = 2 /\ Len(trainSet) = 2
    /\ Cardinality(IdxOp("update_learning_rate")) = 1
    /\ Cardinality(IdxOp("optimize_parameters")) = 4

C9_WitnessNoEpochs ==
    /\ LoopEnded
    /\ EPOCHS = 0
    /\ IdxOp("update_learning_rate") = {}

TypeOK ==
    /\ pc \in {"L66", "L78", "L87", "L131", "L145", "L157", "L167", "done", "crashed"}
    /\ epoch \in Unbound..(MaxEpochs - 1)
    /\ total_iters \in Nat
    /\ (raised # "none") <=> (pc = "crashed")
====
